---- MODULE Spec2Model ----
(***************************************************************************)
(* Model of haros/config_builder.py: the LaunchScope tree and the          *)
(* ConfigurationBuilder tag dispatch that resolves a launch tree into a    *)
(* Configuration (node instances, topics, services, parameters).           *)
(*                                                                         *)
(* Python objects are kept in sequences (scopes, nodes, links) and named   *)
(* by their index; a field that holds a reference holds the index.  Names  *)
(* are sequences of segments: <<"g", "t">> is /g/t and <<>> is "/".        *)
(***************************************************************************)
EXTENDS Integers, Sequences, FiniteSets, TLC

VARIABLES
    scopes,      \* every LaunchScope object created so far
    nodes,       \* every NodeInstance created so far
    links,       \* every PubSubPrimitive / ServicePrimitive created so far
    topics,      \* configuration.topics: resolved name -> Topic
    services,    \* configuration.services: resolved name -> Service
    parameters,  \* the committed-parameter list shared by all scopes of a build
    arguments,   \* every argument table (dict) created so far
    cfgParams,   \* configuration.parameters: resolved name -> Parameter
    errors,      \* ConfigurationBuilder.errors
    pc,          \* where add_launch is: "idle", "walk", "done", "aborted"
    exc,         \* the exception that left add_launch, "" if none
    stack,       \* the active _analyse_tree calls, innermost last
    launches,    \* number of add_launch calls made on this builder
    steps,       \* add_launch calls made and tags dispatched so far
    last         \* the tag the dispatch loop handled last, and how

vars == <<scopes, nodes, links, topics, services, parameters, arguments,
          cfgParams, errors, pc, exc, stack, launches, steps, last>>

-----------------------------------------------------------------------------
(* Bounds of the model *)

MaxSteps == 4    \* add_launch calls and tags dispatched on one builder
MaxTreeLen == 2  \* tags of the launch tree given to add_launch
RecursionLimit == 3  \* nested _analyse_tree calls the interpreter allows

-----------------------------------------------------------------------------
(* Conditions: True (Always), False (Never) or a SourceCondition carrying  *)
(* the unresolved expression (Symbolic).                                   *)

Always == [kind |-> "always", expr |-> ""]
Never == [kind |-> "never", expr |-> ""]
Exprs == {"e1", "e2", "lc"}
Symbolic(e) == [kind |-> "symbolic", expr |-> e]
SymbolicConds == {Symbolic(e) : e \in Exprs}

-----------------------------------------------------------------------------
(* Names *)

NoName == [k |-> "none", p |-> <<>>]
Abs(p) == [k |-> "abs", p |-> p]      \* "/a/b"
Priv(p) == [k |-> "priv", p |-> p]    \* "~a"
Rel(p) == [k |-> "rel", p |-> p]      \* "a"

\* RosName.resolve(name, ns, private_ns)
Resolve(name, ns, pns) ==
    CASE name.k = "abs" -> name.p
      [] name.k = "priv" -> pns \o name.p
      [] OTHER -> ns \o name.p

\* RosName(name, ns, private_ns, remaps).full
FullName(name, ns, pns, remaps) ==
    LET full == Resolve(name, ns, pns)
    IN IF full \in DOMAIN remaps THEN remaps[full] ELSE full

EmptyMap == [x \in {} |-> x]

\* dict[key] = value
Put(map, key, value) == (key :> value) @@ map

-----------------------------------------------------------------------------
(* The source index (sources.nodes, sources.packages): the node templates  *)
(* with the call sites the static extraction found in them.  A call is     *)
(* [name, namespace, type, conditions].                                    *)

Call(name, conds) ==
    [name |-> name, namespace |-> NoName, type |-> "T1", conditions |-> conds]

LinkCond == Symbolic("lc")

NoCalls == [advertise |-> <<>>, subscribe |-> <<>>,
            service |-> <<>>, client |-> <<>>]

Templates ==
    [talker |-> [NoCalls EXCEPT
                     !.advertise = <<Call(Rel(<<"t">>), <<>>),
                                     Call(Rel(<<"u">>), <<LinkCond>>)>>,
                     !.service = <<Call(Rel(<<"s">>), <<>>)>>],
     listener |-> [NoCalls EXCEPT
                     !.subscribe = <<Call(Rel(<<"t">>), <<LinkCond>>),
                                     Call(Rel(<<"u">>), <<>>)>>,
                     !.client = <<Call(Rel(<<"s">>), <<LinkCond>>)>>],
     relay |-> [NoCalls EXCEPT
                     !.advertise = <<Call(Priv(<<"t">>), <<LinkCond>>)>>,
                     !.subscribe = <<Call(Rel(<<"t">>), <<>>)>>,
                     !.service = <<Call(Rel(<<"s">>), <<LinkCond>>)>>,
                     !.client = <<Call(Rel(<<"s">>), <<>>)>>],
     unknown |-> NoCalls]

Packages == {"a"}
IndexedNodes == {"talker", "listener", "relay"}

-----------------------------------------------------------------------------
(* The object graph the operations work on *)

Graph ==
    [scopes |-> scopes, nodes |-> nodes, links |-> links, topics |-> topics,
     services |-> services, parameters |-> parameters,
     arguments |-> arguments]

\* LaunchScope.private_ns
private_ns(G, s) ==
    IF G.scopes[s].node # 0 THEN G.nodes[G.scopes[s].node].name
    ELSE G.scopes[s].namespace

\* LaunchScope._namespace(ns), private = False
namespace_of(G, s, ns) ==
    IF ns = NoName THEN G.scopes[s].namespace
    ELSE Resolve(ns, G.scopes[s].namespace, <<>>)

\* LaunchScope.__init__ for the root scope of a build.  The field cond is
\* not a field of LaunchScope: it records the condition argument the scope
\* was created with, for the properties that speak of it.  The field args
\* names the argument table the scope holds, by its index in arguments.
RootScope(launch, args) ==
    [parent |-> 0, launch |-> launch, namespace |-> <<>>, node |-> 0,
     remaps |-> EmptyMap, conditions |-> <<>>, pparams |-> <<>>,
     args |-> args, cond |-> Always]

\* child with the condition appended whatever it is (the test
\* `if not condition is True` left out)
child_AppendsAlways(G, s, ns, condition, launch, args) ==
    LET self == G.scopes[s]
        new == [parent |-> s,
                launch |-> IF launch = "" THEN self.launch ELSE launch,
                namespace |-> namespace_of(G, s, ns),
                node |-> 0,
                remaps |-> self.remaps,
                conditions |-> Append(self.conditions, condition),
                pparams |-> self.pparams,
                args |-> IF args = 0 THEN self.args ELSE args,
                cond |-> condition]
    IN [G EXCEPT !.scopes = Append(@, new)]

\* child giving the fork the parent's own list (`self.conditions` for
\* `list(self.conditions)`): the append reaches the parent
child_SharesConditions(G, s, ns, condition, launch, args) ==
    LET self == G.scopes[s]
        conds == IF condition = Always THEN self.conditions
                 ELSE Append(self.conditions, condition)
        new == [parent |-> s,
                launch |-> IF launch = "" THEN self.launch ELSE launch,
                namespace |-> namespace_of(G, s, ns),
                node |-> 0,
                remaps |-> self.remaps,
                conditions |-> conds,
                pparams |-> self.pparams,
                args |-> IF args = 0 THEN self.args ELSE args,
                cond |-> condition]
    IN [G EXCEPT !.scopes = Append([@ EXCEPT ![s].conditions = conds], new)]

\* LaunchScope.child: the scope sequence with the fork appended.  args is
\* the table given by the caller, 0 for None
child(G, s, ns, condition, launch, args) ==
    LET self == G.scopes[s]
        new == [parent |-> s,
                launch |-> IF launch = "" THEN self.launch ELSE launch,
                namespace |-> namespace_of(G, s, ns),
                node |-> 0,
                remaps |-> self.remaps,
                conditions |-> IF condition = Always THEN self.conditions
                               ELSE Append(self.conditions, condition),
                pparams |-> self.pparams,
                args |-> IF args = 0 THEN self.args ELSE args,
                cond |-> condition]
    IN [G EXCEPT !.scopes = Append(@, new)]

\* remap on a table that the fork shares with its parent (child passing
\* `self.remaps` instead of `dict(self.remaps)`)
remap_SharedTable(G, s, source, target) ==
    LET pns == private_ns(G, s)
        src == Resolve(source, G.scopes[s].namespace, pns)
        tgt == Resolve(target, G.scopes[s].namespace, pns)
        p == G.scopes[s].parent
    IN IF p = 0 \/ G.scopes[s].node # 0
       THEN [G EXCEPT !.scopes[s].remaps = Put(@, src, tgt)]
       ELSE [G EXCEPT !.scopes[s].remaps = Put(@, src, tgt),
                      !.scopes[p].remaps = Put(@, src, tgt)]

\* remap that also writes the tables of the instances made from the scope
\* (make_node passing `self.remaps` instead of `dict(self.remaps)`)
remap_Retroactive(G, s, source, target) ==
    LET pns == private_ns(G, s)
        src == Resolve(source, G.scopes[s].namespace, pns)
        tgt == Resolve(target, G.scopes[s].namespace, pns)
    IN [G EXCEPT !.scopes =
           [i \in DOMAIN @ |->
               IF i = s \/ (@[i].parent = s /\ @[i].node # 0)
               THEN [@[i] EXCEPT !.remaps = Put(@, src, tgt)]
               ELSE @[i]]]

\* LaunchScope.remap
remap(G, s, source, target) ==
    LET pns == private_ns(G, s)
        src == Resolve(source, G.scopes[s].namespace, pns)
        tgt == Resolve(target, G.scopes[s].namespace, pns)
    IN [G EXCEPT !.scopes[s].remaps = Put(@, src, tgt)]

\* the for loop of make_node giving the copies the conditions of the
\* pending parameters only
RehomedParams_OwnConditions(pending, pns, instConds) ==
    [i \in 1..Len(pending) |->
        [pending[i] EXCEPT !.name = Resolve(pending[i].given, pns, pns)]]

\* The parameters make_node re-homes under the new instance (its for loop)
RehomedParams(pending, pns, instConds) ==
    [i \in 1..Len(pending) |->
        [pending[i] EXCEPT !.name = Resolve(pending[i].given, pns, pns),
                           !.conditions = @ \o instConds]]

\* node.rosname.own: the placeholder template is made with RosName("?")
OwnName(node) == IF node = "unknown" THEN "?" ELSE node

\* LaunchScope.make_node: the instance and its scope appended, the pending
\* private parameters of the calling scope re-homed and committed.  The
\* instance's remaps and conditions are the objects its scope holds, so
\* they are kept once, in the scope record, and read through nodes[n].scope.
make_node(G, s, node, name, ns, condition) ==
    LET self == G.scopes[s]
        nsp == namespace_of(G, s, ns)
        given == IF name = NoName THEN Rel(<<OwnName(node)>>) ELSE name
        full == Resolve(given, nsp, private_ns(G, s))
        conds == IF condition = Always THEN self.conditions
                 ELSE Append(self.conditions, condition)
        inst == [name |-> full, node |-> node, launch |-> self.launch,
                 scope |-> Len(G.scopes) + 1,
                 publishers |-> <<>>, subscribers |-> <<>>,
                 servers |-> <<>>, clients |-> <<>>]
        new == [parent |-> s, launch |-> self.launch, namespace |-> nsp,
                node |-> Len(G.nodes) + 1, remaps |-> self.remaps,
                conditions |-> conds, pparams |-> self.pparams,
                args |-> self.args, cond |-> condition]
    IN [G EXCEPT !.nodes = Append(@, inst),
                 !.scopes = Append(@, new),
                 !.parameters = @ \o RehomedParams(self.pparams, full, conds)]

\* NodeInstance.conditions, NodeInstance.remaps
NodeConditions(G, n) == G.scopes[G.nodes[n].scope].conditions
NodeRemaps(G, n) == G.scopes[G.nodes[n].scope].remaps

-----------------------------------------------------------------------------
(* Links, topics and services.  Topic.conditions and Service.conditions    *)
(* are references: after `topic.conditions = link.conditions` the topic    *)
(* holds the very list object of that link, and a later extend() on it     *)
(* changes the link's list.  calias is the link whose list the entity      *)
(* holds (0: a list of its own, kept in cown).                             *)

\* LaunchScope._resolve_ns
resolve_ns(G, s, ns) ==
    CASE ns = NoName -> G.scopes[s].namespace
      [] ns = Priv(<<>>) -> private_ns(G, s)
      [] OTHER -> Resolve(ns, G.scopes[s].namespace, private_ns(G, s))

\* topic.conditions / service.conditions, read through the reference
EntityConditions(G, e) ==
    IF e.calias = 0 THEN e.cown ELSE G.links[e.calias].conditions

\* <list>.extend(seq) on the list the entity's conditions field refers to
ExtendConditions(st, seq) ==
    IF st.calias = 0 THEN [st EXCEPT !.cown = @ \o seq]
    ELSE [st EXCEPT !.lconds[st.calias] = @ \o seq]

\* one `for link in <list>:` loop of the recomputation, with its break
RECURSIVE ConditionLoop(_, _, _)
ConditionLoop(st, ls, G) ==
    IF ls = <<>> THEN st
    ELSE LET l == Head(ls)
             nc == NodeConditions(G, G.links[l].node)
         IN IF nc = <<>> THEN [st EXCEPT !.calias = l]
            ELSE LET st1 == ExtendConditions(st, nc)
                     st2 == ExtendConditions(st1, st1.lconds[l])
                 IN ConditionLoop(st2, Tail(ls), G)

\* the lists of all links, as the recomputation may change them
LinkConditions(G) == [i \in 1..Len(G.links) |-> G.links[i].conditions]

StoreLinkConditions(ls, lconds) ==
    [i \in 1..Len(ls) |-> [ls[i] EXCEPT !.conditions = lconds[i]]]

\* LaunchScope._update_topic_conditions
update_topic_conditions(G, t) ==
    LET st0 == [calias |-> 0, cown |-> <<>>, lconds |-> LinkConditions(G)]
        st1 == ConditionLoop(st0, G.topics[t].publishers, G)
        st2 == ConditionLoop(st1, G.topics[t].subscribers, G)
    IN [G EXCEPT !.topics[t].calias = st2.calias,
                 !.topics[t].cown = st2.cown,
                 !.links = StoreLinkConditions(@, st2.lconds)]

\* LaunchScope._update_service_conditions
update_service_conditions(G, v) ==
    LET st0 == [calias |-> 0, cown |-> <<>>, lconds |-> LinkConditions(G)]
        srv == G.services[v].server
        nc == NodeConditions(G, G.links[srv].node)
        st1 == IF srv = 0 THEN st0
               ELSE IF nc = <<>> THEN [st0 EXCEPT !.calias = srv]
               ELSE LET a == ExtendConditions(st0, nc)
                    IN ExtendConditions(a, a.lconds[srv])
        st2 == ConditionLoop(st1, G.services[v].clients, G)
    IN [G EXCEPT !.services[v].calias = st2.calias,
                 !.services[v].cown = st2.cown,
                 !.links = StoreLinkConditions(@, st2.lconds)]

\* LaunchScope._lookup_resource for a name without the wildcard marker
lookup_resource(name, collection) ==
    IF name \in DOMAIN collection THEN name ELSE <<"None">>

\* "?" in name
HasWildcard(name) == \E i \in 1..Len(name) : name[i] = "?"

\* LaunchScope._lookup_resource for a name with the wildcard marker, hints
\* and collection given as name -> type.  Both loops test
\* `re.match(pattern, ...)` for each entry, and the module imports
\* namedtuple, os and yaml only: the first entry there is raises NameError.
\* With no entry in either, candidate is returned as it was set: None.
lookup_wildcard(name, type, collection, hints) ==
    IF DOMAIN hints # {} \/ DOMAIN collection # {}
    THEN [raised |-> "NameError", result |-> <<"None">>]
    ELSE [raised |-> "", result |-> <<"None">>]

\* LaunchScope._lookup_resource(name, type, collection, hints)
lookup(name, type, collection, hints) ==
    IF ~HasWildcard(name)
    THEN [raised |-> "",
          result |-> IF name \in DOMAIN collection THEN name ELSE <<"None">>]
    ELSE lookup_wildcard(name, type, collection, hints)

\* _make_topic_link making and adding a Topic without looking one up
make_topic_link_AlwaysNew(G, s, call) ==
    LET n == G.scopes[s].node
        pns == private_ns(G, s)
        full == FullName(call.name, resolve_ns(G, s, call.namespace), pns,
                         NodeRemaps(G, n))
        new == [type |-> call.type, publishers |-> <<>>,
                subscribers |-> <<>>, calias |-> 0, cown |-> <<>>]
        link == [kind |-> "topic", node |-> n, target |-> full,
                 type |-> call.type, given |-> full,
                 conditions |-> call.conditions,
                 declared |-> call.conditions]
    IN [G EXCEPT !.topics = Put(@, full, new),
                 !.links = Append(@, link)]

\* LaunchScope._make_topic_link: the topic looked up or created and added
\* to the collection, and the PubSubPrimitive appended to links.  The field
\* declared is not a field of the link: it keeps the condition list the
\* link was made with, for the properties that speak of it.
make_topic_link(G, s, call) ==
    LET n == G.scopes[s].node
        pns == private_ns(G, s)
        full == FullName(call.name, resolve_ns(G, s, call.namespace), pns,
                         NodeRemaps(G, n))
        found == lookup_resource(full, G.topics)
        new == [type |-> call.type, publishers |-> <<>>,
                subscribers |-> <<>>, calias |-> 0, cown |-> <<>>]
        given == Resolve(call.name,
                         IF call.namespace = NoName
                            THEN G.scopes[s].namespace
                            ELSE Resolve(call.namespace, <<>>, pns), pns)
        link == [kind |-> "topic", node |-> n, target |-> full,
                 type |-> call.type, given |-> given,
                 conditions |-> call.conditions,
                 declared |-> call.conditions]
    IN [G EXCEPT !.topics = IF found = <<"None">> THEN Put(@, full, new)
                            ELSE @,
                 !.links = Append(@, link)]

\* LaunchScope._make_service_link
make_service_link(G, s, call) ==
    LET n == G.scopes[s].node
        pns == private_ns(G, s)
        full == FullName(call.name, resolve_ns(G, s, call.namespace), pns,
                         NodeRemaps(G, n))
        found == lookup_resource(full, G.services)
        new == [type |-> call.type, server |-> 0, clients |-> <<>>,
                calias |-> 0, cown |-> <<>>]
        given == Resolve(call.name,
                         IF call.namespace = NoName
                            THEN G.scopes[s].namespace
                            ELSE Resolve(call.namespace, <<>>, pns), pns)
        link == [kind |-> "service", node |-> n, target |-> full,
                 type |-> call.type, given |-> given,
                 conditions |-> call.conditions,
                 declared |-> call.conditions]
    IN [G EXCEPT !.services = IF found = <<"None">> THEN Put(@, full, new)
                              ELSE @,
                 !.links = Append(@, link)]

\* one pass of a `for call in ...` loop of make_topics: the link made, put
\* in the instance's and the topic's list `role`, the topic recomputed
RECURSIVE AttachTopics(_, _, _, _)
AttachTopics(G, s, calls, role) ==
    IF calls = <<>> THEN G
    ELSE LET G1 == make_topic_link(G, s, Head(calls))
             l == Len(G1.links)
             t == G1.links[l].target
             G2 == [G1 EXCEPT !.nodes[G.scopes[s].node][role] = Append(@, l),
                              !.topics[t][role] = Append(@, l)]
         IN AttachTopics(update_topic_conditions(G2, t), s, Tail(calls), role)

\* LaunchScope.make_topics
make_topics(G, s) ==
    LET tmpl == Templates[G.nodes[G.scopes[s].node].node]
        G1 == AttachTopics(G, s, tmpl.advertise, "publishers")
    IN AttachTopics(G1, s, tmpl.subscribe, "subscribers")

\* the `for call in self.node.node.service:` loop of make_services
RECURSIVE AttachServers(_, _, _)
AttachServers(G, s, calls) ==
    IF calls = <<>> THEN G
    ELSE LET G1 == make_service_link(G, s, Head(calls))
             l == Len(G1.links)
             v == G1.links[l].target
             G2 == [G1 EXCEPT !.nodes[G.scopes[s].node].servers = Append(@, l),
                              !.services[v].server = l]
         IN AttachServers(update_service_conditions(G2, v), s, Tail(calls))

\* the `for call in self.node.node.client:` loop of make_services
RECURSIVE AttachClients(_, _, _)
AttachClients(G, s, calls) ==
    IF calls = <<>> THEN G
    ELSE LET G1 == make_service_link(G, s, Head(calls))
             l == Len(G1.links)
             v == G1.links[l].target
             G2 == [G1 EXCEPT !.nodes[G.scopes[s].node].clients = Append(@, l),
                              !.services[v].clients = Append(@, l)]
         IN AttachClients(update_service_conditions(G2, v), s, Tail(calls))

\* LaunchScope.make_services
make_services(G, s) ==
    LET tmpl == Templates[G.nodes[G.scopes[s].node].node]
    IN AttachClients(AttachServers(G, s, tmpl.service), s, tmpl.client)

-----------------------------------------------------------------------------
(* Inputs *)

NsChoices == {NoName, Rel(<<"g">>)}
NodeNamings == {<<Rel(<<"n">>), NoName>>, <<Rel(<<"m">>), Rel(<<"g">>)>>}
RemapPairs == {<<Rel(<<"t">>), Rel(<<"u">>)>>, <<Rel(<<"u">>), Abs(<<"t">>)>>,
               <<Priv(<<"t">>), Rel(<<"t">>)>>}
GroupConds == {Always, Symbolic("e1")}
NodeConds == {Always, Symbolic("e2")}

SetGraph(G) ==
    /\ scopes' = G.scopes
    /\ nodes' = G.nodes
    /\ links' = G.links
    /\ topics' = G.topics
    /\ services' = G.services
    /\ parameters' = G.parameters
    /\ arguments' = G.arguments

graphVars == <<scopes, nodes, links, topics, services, parameters,
               arguments>>

\* the scope of the innermost active _analyse_tree call
Frame(scope, kind) == [scope |-> scope, kind |-> kind]
Top == stack[Len(stack)]
Pop == SubSeq(stack, 1, Len(stack) - 1)

\* last: the tag handled last and how its condition's value relates to its
\* polarity ("include": equal, "exclude": the opposite, "unresolved": None)
NoAttrs == [resolved |-> TRUE]
NoTag == [tag |-> "", match |-> "", attrs |-> NoAttrs]

-----------------------------------------------------------------------------
(* LaunchScope driven directly, its methods called in the order the        *)
(* builder's handlers call them: forks and node scopes nest, remaps go to  *)
(* the innermost scope, and a node's links are made when its scope is      *)
(* left.  The conditions are arguments: any of True and the symbolic ones. *)

ScopeInit ==
    /\ scopes = <<RootScope("main", 1)>>
    /\ arguments = <<EmptyMap>>
    /\ nodes = <<>>
    /\ links = <<>>
    /\ topics = EmptyMap
    /\ services = EmptyMap
    /\ parameters = <<>>
    /\ cfgParams = EmptyMap
    /\ errors = <<>>
    /\ pc = "walk"
    /\ exc = ""
    /\ stack = <<Frame(1, "root")>>
    /\ launches = 1
    /\ steps = 1
    /\ last = NoTag

ScopeChild ==
    /\ steps < MaxSteps
    /\ Top.kind # "node"
    /\ \E ns \in NsChoices, c \in GroupConds :
          SetGraph(child(Graph, Top.scope, ns, c, "", 0))
    /\ stack' = Append(stack, Frame(Len(scopes) + 1, "group"))
    /\ UNCHANGED <<cfgParams, errors, pc, exc, launches, last>>
    /\ steps' = steps + 1

ScopeRemap ==
    /\ steps < MaxSteps
    /\ \E r \in RemapPairs : SetGraph(remap(Graph, Top.scope, r[1], r[2]))
    /\ UNCHANGED <<cfgParams, errors, pc, exc, stack, launches, last>>
    /\ steps' = steps + 1

ScopeMakeNode ==
    /\ steps < MaxSteps
    /\ Top.kind # "node"
    /\ \E node \in IndexedNodes, nm \in NodeNamings, c \in NodeConds :
          SetGraph(make_node(Graph, Top.scope, node, nm[1], nm[2], c))
    /\ stack' = Append(stack, Frame(Len(scopes) + 1, "node"))
    /\ UNCHANGED <<cfgParams, errors, pc, exc, launches, last>>
    /\ steps' = steps + 1

ScopeMakeLinks ==
    /\ Top.kind = "node"
    /\ SetGraph(make_services(make_topics(Graph, Top.scope), Top.scope))
    /\ stack' = Pop
    /\ UNCHANGED <<cfgParams, errors, pc, exc, launches, steps, last>>

ScopeLeave ==
    /\ Top.kind = "group"
    /\ stack' = Pop
    /\ UNCHANGED <<graphVars, cfgParams, errors, pc, exc, launches, steps, last>>

ScopeNext ==
    \/ ScopeChild
    \/ ScopeRemap
    \/ ScopeMakeNode
    \/ ScopeMakeLinks
    \/ ScopeLeave

ScopeSpec == ScopeInit /\ [][ScopeNext]_vars

-----------------------------------------------------------------------------
(* ConfigurationBuilder: add_launch and the dispatch loop of _analyse_tree. *)
(* The launch tree is read in document order: each action below is one     *)
(* pass of the loop for the next tag of the innermost tree being analysed, *)
(* or the end of that tree, where the handler that recursed resumes.       *)

\* Exceptions travel as condition-shaped records
Raised(e) == [kind |-> "raise", expr |-> e]

\* _condition comparing the value with True instead of with condition[0]
condition_IgnoresPolarity(polarity, value) ==
    IF value = "None" THEN Raised("NameError")
    ELSE IF value = "True" THEN Always
    ELSE Never

\* ConfigurationBuilder._condition.  polarity is condition[0], value what
\* sub.resolve(condition[1]) returned.  For an unresolved value the
\* SourceCondition is built from `config.roslaunch[-1].location`, and no
\* name `config` is bound in _condition or in the module: NameError.
condition_of(polarity, value) ==
    IF value = "None" THEN Raised("NameError")
    ELSE IF (value = "True") = polarity THEN Always
    ELSE Never

\* _get_node without the test of the package (`if not package: raise`)
get_node_PackageUnchecked(pkg, exe) ==
    IF pkg \in Packages /\ exe \in IndexedNodes THEN exe
    ELSE "unknown"

\* ConfigurationBuilder._get_node, for an executable other than a nodelet
get_node(pkg, exe) ==
    IF pkg \notin Packages THEN "ConfigurationError"
    ELSE IF exe \in IndexedNodes THEN exe
    ELSE "unknown"

\* Python values: a scalar with its type, or a dict given by its items
\* <<key, value>> in the order the dict iterates them
Scalar(type, value) == [type |-> type, value |-> value, items |-> <<>>]
Mapping(items) == [type |-> "dict", value |-> "", items |-> items]

\* yaml.load for the documents of the model: the value, or the error it
\* raises.  "{" ends where the parser expects a node (ParserError); in
\* "a: b: c" the scanner finds a mapping value where none is allowed
\* (ScannerError).  Both are MarkedYAMLError and neither is the other.
YamlLoad(text) ==
    CASE text = "{a: 1, b: {c: 2}}" ->
            Mapping(<< <<"a", Scalar("int", "1")>>,
                       <<"b", Mapping(<< <<"c", Scalar("int", "2")>> >>)>> >>)
      [] text = "{}" -> Mapping(<<>>)
      [] text = "1" -> Scalar("int", "1")
      [] text = "2" -> Scalar("int", "2")
      [] text = "a: b: c" -> Scalar("ScannerError", text)
      [] OTHER -> Scalar("ParserError", text)

\* the literals int() and float() accept, and value.lower() of those that
\* spell a boolean
IntLiterals == {"1", "2", "0"}
FloatLiterals == {"1.5"} \cup IntLiterals
Lower(value) ==
    CASE value \in {"true", "True"} -> "true"
      [] value \in {"false", "False"} -> "false"
      [] OTHER -> value

\* LaunchScope._convert_value: the value, or the exception it raises
\* (ValueError, or the error of yaml.load that `except
\* yaml.parser.ParserError` does not catch)
convert_value(value, ptype) ==
    CASE ptype = "None" ->
            IF value \in IntLiterals THEN Scalar("int", value)
            ELSE IF value \in FloatLiterals THEN Scalar("double", value)
            ELSE IF Lower(value) \in {"true", "false"}
            THEN Scalar("bool", Lower(value))
            ELSE Scalar("string", value)
      [] ptype \in {"str", "string"} -> Scalar("string", value)
      [] ptype = "int" ->
            IF value \in IntLiterals THEN Scalar("int", value)
            ELSE Scalar("ValueError", value)
      [] ptype = "double" ->
            IF value \in FloatLiterals THEN Scalar("double", value)
            ELSE Scalar("ValueError", value)
      [] ptype \in {"bool", "boolean"} ->
            IF Lower(value) \in {"true", "1"} THEN Scalar("bool", "true")
            ELSE IF Lower(value) \in {"false", "0"}
            THEN Scalar("bool", "false")
            ELSE Scalar("ValueError", value)
      [] ptype = "yaml" ->
            IF YamlLoad(value).type = "ParserError"
            THEN Scalar("ValueError", value)
            ELSE YamlLoad(value)
      [] OTHER -> Scalar("ValueError", value)

\* LaunchScope._ns_join.  "~" is Priv(<<>>), "/" is Abs(<<>>)
ns_join(name, ns) ==
    IF name.k \in {"priv", "abs"} THEN name
    ELSE IF ns.k = "none" THEN name
    ELSE [k |-> ns.k, p |-> ns.p \o name.p]

\* LaunchScope._unfold: the (name, value) pairs of the leaves, in the order
\* the loop appends them (the stack is popped from its end, so the items
\* of a dict are taken last first, each with all that is below it)
RECURSIVE unfold(_, _, _)
RECURSIVE UnfoldItems(_, _)
unfold(ns, key, value) ==
    LET name == ns_join(key, ns)
    IN IF value.type # "dict" THEN <<[name |-> name, value |-> value]>>
       ELSE UnfoldItems(name, value.items)

UnfoldItems(name, items) ==
    IF items = <<>> THEN <<>>
    ELSE LET item == items[Len(items)]
         IN unfold(name, Rel(<<item[1]>>), item[2])
               \o UnfoldItems(name, SubSeq(items, 1, Len(items) - 1))

\* _yaml_param keeping every leaf of a private name pending
yaml_param_PrivatePending(G, s, name, value, conditions, private) ==
    LET priv == private /\ name.k = "priv"
        pns == private_ns(G, s)
        items == unfold(NoName, name, value)
        Param(item) ==
            [name |-> Resolve(item.name, pns, pns),
             given |-> item.name, type |-> "None", value |-> item.value.value,
             node_scope |-> G.scopes[s].node # 0, conditions |-> conditions]
        params == [i \in 1..Len(items) |-> Param(items[i])]
    IN IF priv THEN [G EXCEPT !.scopes[s].pparams = @ \o params]
       ELSE [G EXCEPT !.parameters = @ \o params]

\* LaunchScope._yaml_param
yaml_param(G, s, name, value, conditions, private) ==
    LET priv == private /\ name.k = "priv"
        pns == private_ns(G, s)
        items == unfold(NoName, name, value)
        Param(item) ==
            [name |-> IF item.name.k = "priv"
                      THEN Resolve(item.name, <<"roslaunch">>, <<"roslaunch">>)
                      ELSE Resolve(item.name, pns, pns),
             given |-> item.name, type |-> "None", value |-> item.value.value,
             node_scope |-> G.scopes[s].node # 0, conditions |-> conditions]
        params == [i \in 1..Len(items) |-> Param(items[i])]
        Independent(param) == param.given.k \in {"abs", "priv"}
    IN [G EXCEPT
          !.parameters =
              @ \o SelectSeq(params, LAMBDA q : Independent(q) \/ ~priv),
          !.scopes[s].pparams =
              @ \o SelectSeq(params, LAMBDA q : ~(Independent(q) \/ ~priv))]

\* make_params on a pending list that the scope shares with its parent
\* (__init__ keeping `parent._params` instead of `list(parent._params)`)
make_params_SharedPending(G, s, name, value, condition) ==
    LET self == G.scopes[s]
        pns == private_ns(G, s)
        conds == IF condition = Always THEN self.conditions
                 ELSE Append(self.conditions, condition)
        param == [name |-> Resolve(name, pns, pns), given |-> name,
                  type |-> value.type, value |-> value.value,
                  node_scope |-> self.node # 0, conditions |-> conds]
    IN IF value.type = "dict" THEN yaml_param(G, s, name, value, conds, TRUE)
       ELSE IF self.node = 0 /\ name.k = "priv"
       THEN IF self.parent = 0
            THEN [G EXCEPT !.scopes[s].pparams = Append(@, param)]
            ELSE [G EXCEPT !.scopes[s].pparams = Append(@, param),
                           !.scopes[self.parent].pparams = Append(@, param)]
       ELSE [G EXCEPT !.parameters = Append(@, param)]

\* LaunchScope.make_params, value being what _convert_value returned
make_params(G, s, name, value, condition) ==
    LET self == G.scopes[s]
        pns == private_ns(G, s)
        conds == IF condition = Always THEN self.conditions
                 ELSE Append(self.conditions, condition)
        param == [name |-> Resolve(name, pns, pns), given |-> name,
                  type |-> value.type, value |-> value.value,
                  node_scope |-> self.node # 0, conditions |-> conds]
    IN IF value.type = "dict" THEN yaml_param(G, s, name, value, conds, TRUE)
       ELSE IF self.node = 0 /\ name.k = "priv"
       THEN [G EXCEPT !.scopes[s].pparams = Append(@, param)]
       ELSE [G EXCEPT !.parameters = Append(@, param)]

\* What a method that can raise gives: the exception ("" if none) and the
\* graph it leaves
Returned(G) == [raised |-> "", graph |-> G]
Raises(e, G) == [raised |-> e, graph |-> G]

\* LaunchScope.make_rosparam, value being the text of the document
make_rosparam(G, s, name, ns, value, condition) ==
    LET self == G.scopes[s]
        pns == Abs(private_ns(G, s))
        loaded == YamlLoad(value)
        nsj == ns_join(IF ns = NoName THEN pns ELSE ns, pns)
        conds == IF condition = Always THEN self.conditions
                 ELSE Append(self.conditions, condition)
    IN IF loaded.type \in {"ParserError", "ScannerError"}
       THEN Raises("ConfigurationError", G)
       ELSE IF name # NoName
       THEN Returned(yaml_param(G, s, ns_join(name, nsj), loaded, conds,
                                FALSE))
       ELSE IF loaded.type # "dict"
       THEN Raises("ConfigurationError", G)
       ELSE Returned(yaml_param(G, s, nsj, loaded, conds, FALSE))

\* LaunchScope.remove_param, collection being configuration.parameters.
\* Its last statement reads self.resources, an attribute no LaunchScope
\* has: AttributeError.
remove_param(G, s, name, ns, condition, collection) ==
    LET self == G.scopes[s]
        pns == Abs(private_ns(G, s))
        nsj == ns_join(IF ns = NoName THEN pns ELSE ns, pns)
        full == Resolve(name, nsj.p, <<"rosparam">>)
    IN IF full \notin DOMAIN collection
       THEN Raises("ConfigurationError", G)
       ELSE IF condition # Always \/ self.conditions # <<>>
       THEN Returned(G)
       ELSE Raises("AttributeError", G)

\* the loop adding a parameter only under a name the collection lacks
RECURSIVE CommitParameters_FirstWins(_, _)
CommitParameters_FirstWins(collection, ps) ==
    IF ps = <<>> THEN collection
    ELSE CommitParameters_FirstWins(
            IF Head(ps).name \in DOMAIN collection THEN collection
            ELSE Put(collection, Head(ps).name, Head(ps)), Tail(ps))

\* the loop at the end of add_launch: configuration.parameters.add(param)
RECURSIVE CommitParameters(_, _)
CommitParameters(collection, ps) ==
    IF ps = <<>> THEN collection
    ELSE CommitParameters(Put(collection, Head(ps).name, Head(ps)), Tail(ps))

\* (polarity, value the evaluator returns for the expression)
CondInputs == {<<TRUE, "True">>, <<FALSE, "False">>, <<FALSE, "True">>,
               <<TRUE, "False">>, <<TRUE, "None">>}

\* What the strict resolution of a tag's attributes gives: the values, or
\* resolved = FALSE when the evaluator raises SubstitutionError
NodeAttrs(pkg, exe, nm) ==
    [resolved |-> TRUE, pkg |-> pkg, exe |-> exe, name |-> nm[1], ns |-> nm[2]]
NodeInputs ==
    {NodeAttrs("a", exe, <<Rel(<<"n">>), NoName>>) :
        exe \in {"talker", "listener", "other"}}
    \cup {NodeAttrs("", "talker", <<NoName, NoName>>),
          NodeAttrs("a", "", <<NoName, NoName>>),
          NodeAttrs("zz", "talker", <<NoName, NoName>>),
          [NodeAttrs("a", "talker", <<NoName, NoName>>)
              EXCEPT !.resolved = FALSE]}
IncludeAttrs(file, ns, pass_all_args) ==
    [resolved |-> TRUE, file |-> file, ns |-> ns,
     pass_all_args |-> pass_all_args]
IncludeInputs ==
    {IncludeAttrs("inc", NoName, pass) : pass \in BOOLEAN}
    \cup {IncludeAttrs("inc", Rel(<<"g">>), FALSE),
          IncludeAttrs("missing", NoName, FALSE),
          IncludeAttrs("notree", NoName, FALSE),
          [IncludeAttrs("inc", NoName, FALSE) EXCEPT !.resolved = FALSE]}
GroupInputs ==
    {[resolved |-> TRUE, ns |-> ns] : ns \in NsChoices}
    \cup {[resolved |-> FALSE, ns |-> NoName]}
RemapInputs ==
    {[resolved |-> TRUE, origin |-> r[1], target |-> r[2]] :
        r \in {q \in RemapPairs : q[1].k = "rel"}}
    \cup {[resolved |-> FALSE, origin |-> NoName, target |-> NoName]}
ArgAttrs(value, default) ==
    [resolved |-> TRUE, name |-> "a", value |-> value, default |-> default]
ArgInputs ==
    {ArgAttrs("v1", "None"), ArgAttrs("v2", "None"), ArgAttrs("None", "d"),
     ArgAttrs("None", "None"),
     [ArgAttrs("v1", "None") EXCEPT !.resolved = FALSE]}
RosparamAttrs(command, name, value) ==
    [resolved |-> TRUE, command |-> command, name |-> name, ns |-> NoName,
     value |-> value]
RosparamInputs ==
    {RosparamAttrs("load", Rel(<<"x">>), "{a: 1, b: {c: 2}}"),
     RosparamAttrs("load", Rel(<<"x">>), "2"),
     RosparamAttrs("load", NoName, "2"),
     RosparamAttrs("load", NoName, "{"),
     RosparamAttrs("delete", Rel(<<"x">>), ""),
     [RosparamAttrs("delete", Rel(<<"x">>), "") EXCEPT !.resolved = FALSE]}
ParamNames == {Priv(<<"x">>), Rel(<<"x">>)}
ParamValues == {<<"1", "None">>, <<"a", "int">>,
                <<"{a: 1, b: {c: 2}}", "yaml">>}
ParamFailures == {<<"2", "bool">>, <<"1", "list">>, <<"a: b: c", "yaml">>}
NoEffectTags == {"env", "machine", "test"}
ConditionalTags == {"node", "include", "group", "remap", "param",
                    "rosparam", "arg"} \cup NoEffectTags
\* env, machine and test tags reported as tags the builder cannot handle
NoEffect_LogsError ==
    /\ errors' = Append(errors, "unknown tag")
    /\ UNCHANGED <<graphVars, cfgParams, pc, exc, stack, launches>>

ParamInputs ==
    {[resolved |-> TRUE, name |-> n, value |-> v[1], type |-> v[2]] :
        n \in ParamNames, v \in ParamValues}
    \cup {[resolved |-> TRUE, name |-> Rel(<<"x">>), value |-> v[1],
           type |-> v[2]] : v \in ParamFailures}
    \cup {[resolved |-> FALSE, name |-> NoName, value |-> "", type |-> "None"]}

Init ==
    /\ scopes = <<>>
    /\ arguments = <<>>
    /\ nodes = <<>>
    /\ links = <<>>
    /\ topics = EmptyMap
    /\ services = EmptyMap
    /\ parameters = <<>>
    /\ cfgParams = EmptyMap
    /\ errors = <<>>
    /\ pc = "idle"
    /\ exc = ""
    /\ stack = <<>>
    /\ launches = 0
    /\ steps = 0
    /\ last = NoTag

\* ConfigurationBuilder.add_launch up to its call of _analyse_tree.  The
\* builder outlives a call that an exception left.
AddLaunch ==
    /\ pc \in {"idle", "done", "aborted"}
    /\ steps < MaxSteps
    /\ steps' = steps + 1
    /\ launches' = launches + 1
    /\ exc' = ""
    /\ last' = NoTag
    /\ \E tree \in BOOLEAN :
          IF ~tree
          THEN /\ errors' = Append(errors, "missing parse tree")
               /\ pc' = "done"
               /\ stack' = <<>>
               /\ UNCHANGED <<graphVars, cfgParams>>
          ELSE /\ scopes' = Append(scopes,
                                    RootScope("main", Len(arguments) + 1))
               /\ arguments' = Append(arguments, EmptyMap)
               /\ parameters' = <<>>
               /\ stack' = <<Frame(Len(scopes) + 1, "root")>>
               /\ pc' = "walk"
               /\ UNCHANGED <<nodes, links, topics, services, cfgParams,
                              errors>>

\* an exception no except clause of the builder catches leaves add_launch
Abort(e) ==
    /\ pc' = "aborted"
    /\ exc' = e
    /\ stack' = <<>>
    /\ UNCHANGED <<graphVars, cfgParams, errors, launches>>

\* the error put in front of the log (`insert(0, ...)` for `append`)
LogError_Prepends(msg) ==
    /\ errors' = <<msg>> \o errors
    /\ UNCHANGED <<graphVars, cfgParams, pc, exc, stack, launches>>

\* `except (ConfigurationError, SubstitutionError) as e` of _analyse_tree
LogError(msg) ==
    /\ errors' = Append(errors, msg)
    /\ UNCHANGED <<graphVars, cfgParams, pc, exc, stack, launches>>

NoEffect == UNCHANGED <<graphVars, cfgParams, errors, pc, exc, stack, launches>>

Match(in) ==
    IF in[2] = "None" THEN "unresolved"
    ELSE IF (in[2] = "True") = in[1] THEN "include"
    ELSE "exclude"

\* one pass of the loop of _analyse_tree for a tag that is no error node
\* and whose condition is neither False nor fails to be computed: the
\* handler of the tag is called with the condition
Dispatch(tag, in, attrs) ==
    /\ pc = "walk"
    /\ steps < MaxSteps
    /\ condition_of(in[1], in[2]).kind \notin {"never", "raise"}
    /\ steps' = steps + 1
    /\ last' = [tag |-> tag, match |-> Match(in), attrs |-> attrs]

\* the pass of the loop for a tag whose condition is False: `continue`,
\* whatever the tag is
SkippedTag ==
    /\ pc = "walk"
    /\ steps < MaxSteps
    /\ \E in \in CondInputs :
          /\ condition_of(in[1], in[2]) = Never
          /\ last' = [tag |-> "", match |-> Match(in), attrs |-> NoAttrs]
    /\ steps' = steps + 1
    /\ NoEffect

\* the pass of the loop for a tag for which _condition raises
UnresolvedTag ==
    /\ pc = "walk"
    /\ steps < MaxSteps
    /\ \E in \in CondInputs, tag \in ConditionalTags :
          /\ condition_of(in[1], in[2]).kind = "raise"
          /\ last' = [tag |-> tag, match |-> Match(in), attrs |-> NoAttrs]
          /\ Abort(condition_of(in[1], in[2]).expr)
    /\ steps' = steps + 1

\* the pass of the loop for an error node
ErrorTag ==
    /\ pc = "walk"
    /\ steps < MaxSteps
    /\ steps' = steps + 1
    /\ last' = [tag |-> "error", match |-> "", attrs |-> NoAttrs]
    /\ LogError("parse error")

\* ConfigurationBuilder._group_tag up to its call of _analyse_tree
group_tag(condition, ns, resolved) ==
    IF ~resolved THEN LogError("SubstitutionError")
    ELSE /\ SetGraph(child(Graph, Top.scope, ns, condition, "", 0))
         /\ stack' = Append(stack, Frame(Len(scopes) + 1, "group"))
         /\ UNCHANGED <<cfgParams, errors, pc, exc, launches>>

GroupTag ==
    /\ pc = "walk" /\ Top.kind # "node"
    /\ \E in \in CondInputs, a \in GroupInputs :
          /\ Dispatch("group", in, a)
          /\ group_tag(condition_of(in[1], in[2]), a.ns, a.resolved)

\* ConfigurationBuilder._node_tag up to its call of _analyse_tree
node_tag(condition, pkg, exe, name, ns, resolved) ==
    IF ~resolved THEN LogError("SubstitutionError")
    ELSE IF pkg = "" \/ exe = ""
    THEN LogError("node tag is missing pkg or type")
    ELSE IF get_node(pkg, exe) = "ConfigurationError"
    THEN LogError("cannot find package")
    ELSE /\ SetGraph(make_node(Graph, Top.scope, get_node(pkg, exe),
                               name, ns, condition))
         /\ stack' = Append(stack, Frame(Len(scopes) + 1, "node"))
         /\ UNCHANGED <<cfgParams, errors, pc, exc, launches>>

NodeTag ==
    /\ pc = "walk" /\ Top.kind # "node"
    /\ \E in \in CondInputs, a \in NodeInputs :
          /\ Dispatch("node", in, a)
          /\ node_tag(condition_of(in[1], in[2]), a.pkg, a.exe, a.name, a.ns, a.resolved)

\* _include_tag forking the scope before it looks the file up
include_tag_ForksFirst(condition, file, ns, pass_all_args, resolved) ==
    IF ~resolved THEN LogError("SubstitutionError")
    ELSE /\ LET args == IF pass_all_args
                           THEN arguments[scopes[Top.scope].args]
                           ELSE EmptyMap
                G == [Graph EXCEPT !.arguments = Append(@, args)]
            IN SetGraph(child(G, Top.scope, ns, condition, file,
                              Len(arguments) + 1))
         /\ IF file \in {"missing", "notree"}
            THEN /\ errors' = Append(errors, "cannot find launch file")
                 /\ UNCHANGED <<cfgParams, pc, exc, stack, launches>>
            ELSE /\ stack' = Append(stack, Frame(Len(scopes) + 1, "include"))
                 /\ UNCHANGED <<cfgParams, errors, pc, exc, launches>>

\* _include_tag calling scope.child without a table (args = None)
include_tag_SharesArguments(condition, file, ns, pass_all_args, resolved) ==
    IF ~resolved THEN LogError("SubstitutionError")
    ELSE IF file = "missing" THEN LogError("cannot find launch file")
    ELSE IF file = "notree" THEN LogError("missing parse tree")
    ELSE /\ SetGraph(child(Graph, Top.scope, ns, condition, file, 0))
         /\ stack' = Append(stack, Frame(Len(scopes) + 1, "include"))
         /\ UNCHANGED <<cfgParams, errors, pc, exc, launches>>

\* ConfigurationBuilder._include_tag up to its first call of _analyse_tree
include_tag(condition, file, ns, pass_all_args, resolved) ==
    IF ~resolved THEN LogError("SubstitutionError")
    ELSE IF file = "missing" THEN LogError("cannot find launch file")
    ELSE IF file = "notree" THEN LogError("missing parse tree")
    ELSE /\ LET args == IF pass_all_args
                           THEN arguments[scopes[Top.scope].args]
                           ELSE EmptyMap
                G == [Graph EXCEPT !.arguments = Append(@, args)]
            IN SetGraph(child(G, Top.scope, ns, condition, file,
                              Len(arguments) + 1))
         /\ stack' = Append(stack, Frame(Len(scopes) + 1, "include"))
         /\ UNCHANGED <<cfgParams, errors, pc, exc, launches>>

IncludeTag ==
    /\ pc = "walk" /\ Top.kind # "node"
    /\ \E in \in CondInputs, a \in IncludeInputs :
          /\ Dispatch("include", in, a)
          /\ include_tag(condition_of(in[1], in[2]), a.file, a.ns,
                         a.pass_all_args, a.resolved)

\* ConfigurationBuilder._remap_tag
remap_tag(condition, origin, target, resolved) ==
    IF condition # Always THEN LogError("cannot resolve conditional remap")
    ELSE IF ~resolved THEN LogError("SubstitutionError")
    ELSE /\ SetGraph(remap(Graph, Top.scope, origin, target))
         /\ UNCHANGED <<cfgParams, errors, pc, exc, stack, launches>>

RemapTag ==
    /\ pc = "walk"
    /\ \E in \in CondInputs, a \in RemapInputs :
          /\ Dispatch("remap", in, a)
          /\ remap_tag(condition_of(in[1], in[2]), a.origin, a.target, a.resolved)

\* ConfigurationBuilder._param_tag for a literal value.  An exception of
\* make_params that is no ValueError is not turned into a
\* ConfigurationError, and _analyse_tree does not catch it.
param_tag(condition, name, value, ptype, resolved) ==
    IF ~resolved THEN LogError("SubstitutionError")
    ELSE IF convert_value(value, ptype).type = "ValueError"
    THEN LogError("ValueError")
    ELSE IF convert_value(value, ptype).type = "ScannerError"
    THEN Abort("ScannerError")
    ELSE /\ SetGraph(make_params(Graph, Top.scope, name,
                                 convert_value(value, ptype), condition))
         /\ UNCHANGED <<cfgParams, errors, pc, exc, stack, launches>>

ParamTag ==
    /\ pc = "walk"
    /\ \E in \in CondInputs, a \in ParamInputs :
          /\ Dispatch("param", in, a)
          /\ param_tag(condition_of(in[1], in[2]), a.name, a.value, a.type, a.resolved)

\* dict.get(key): None for a missing key
Get(map, key) == IF key \in DOMAIN map THEN map[key] ELSE "None"

\* _arg_tag binding the default whatever is bound
arg_tag_DefaultOverrides(condition, name, value, default, resolved) ==
    LET self == scopes[Top.scope]
    IN IF self.conditions # <<>> \/ condition # Always
       THEN LogError("cannot resolve conditional arg")
       ELSE IF ~resolved THEN LogError("SubstitutionError")
       ELSE /\ arguments' =
                  [arguments EXCEPT ![self.args] =
                      Put(@, name, IF value # "None" THEN value ELSE default)]
            /\ UNCHANGED <<scopes, nodes, links, topics, services,
                           parameters, cfgParams, errors, pc, exc, stack,
                           launches>>

\* ConfigurationBuilder._arg_tag.  value and default are "None" for an
\* attribute the tag does not have.
arg_tag(condition, name, value, default, resolved) ==
    LET self == scopes[Top.scope]
    IN IF self.conditions # <<>> \/ condition # Always
       THEN LogError("cannot resolve conditional arg")
       ELSE IF ~resolved THEN LogError("SubstitutionError")
       ELSE /\ arguments' =
                  IF value # "None"
                  THEN [arguments EXCEPT ![self.args] = Put(@, name, value)]
                  ELSE IF Get(arguments[self.args], name) = "None"
                  THEN [arguments EXCEPT ![self.args] = Put(@, name, default)]
                  ELSE arguments
            /\ UNCHANGED <<scopes, nodes, links, topics, services,
                           parameters, cfgParams, errors, pc, exc, stack,
                           launches>>

ArgTag ==
    /\ pc = "walk"
    /\ \E in \in CondInputs, a \in ArgInputs :
          /\ Dispatch("arg", in, a)
          /\ arg_tag(condition_of(in[1], in[2]), a.name, a.value, a.default,
                     a.resolved)

\* ConfigurationBuilder._rosparam_tag for a document given as text
rosparam_tag(condition, command, name, ns, value, resolved) ==
    LET done == IF command = "load"
                THEN make_rosparam(Graph, Top.scope, name, ns, value,
                                   condition)
                ELSE IF command = "delete"
                THEN remove_param(Graph, Top.scope, name, ns, condition,
                                  cfgParams)
                ELSE Returned(Graph)
    IN IF ~resolved THEN LogError("SubstitutionError")
       ELSE IF done.raised = "ConfigurationError"
       THEN LogError("ConfigurationError")
       ELSE IF done.raised # "" THEN Abort(done.raised)
       ELSE /\ SetGraph(done.graph)
            /\ UNCHANGED <<cfgParams, errors, pc, exc, stack, launches>>

RosparamTag ==
    /\ pc = "walk"
    /\ \E in \in CondInputs, a \in RosparamInputs :
          /\ Dispatch("rosparam", in, a)
          /\ rosparam_tag(condition_of(in[1], in[2]), a.command, a.name,
                          a.ns, a.value, a.resolved)

\* ConfigurationBuilder._env_tag, _machine_tag, _test_tag
NoEffectTag ==
    /\ pc = "walk"
    /\ \E in \in CondInputs, tag \in NoEffectTags :
          /\ Dispatch(tag, in, NoAttrs)
          /\ NoEffect

\* ConfigurationBuilder.hints: full name of an instance -> call kind ->
\* name -> type
NoHints == [advertise |-> EmptyMap, subscribe |-> EmptyMap,
            service |-> EmptyMap, client |-> EmptyMap]
HintIndex ==
    (<<"n">> :> [NoHints EXCEPT !.advertise = (Rel(<<"h">>) :> "T1"),
                               !.subscribe = (Rel(<<"t">>) :> "T2"),
                               !.service = (Rel(<<"hs">>) :> "T1")])

\* ConfigurationBuilder._make_comm_hint, for a name without "/": it is
\* resolved against the namespace "/" and renamed by the instance's remaps
make_comm_hint(G, s, name) ==
    FullName(name, resolve_ns(G, s, Abs(<<>>)), private_ns(G, s),
             NodeRemaps(G, G.scopes[s].node))

\* the dict the loops of _make_comm_hints fill for two call kinds, as
\* full name -> type: an entry of the second kind replaces one of the
\* first under the same full name
CommHints(G, s, first, second) ==
    LET Full(name) == make_comm_hint(G, s, name)
    IN [f \in {Full(name) : name \in DOMAIN first \cup DOMAIN second} |->
          IF \E name \in DOMAIN second : Full(name) = f
          THEN second[CHOOSE name \in DOMAIN second : Full(name) = f]
          ELSE first[CHOOSE name \in DOMAIN first : Full(name) = f]]

\* ConfigurationBuilder._make_comm_hints, with the lookup of the hints of
\* the instance that _node_tag makes before it.  The Topic and Service
\* objects it makes are put in the two dicts it returns and nowhere else.
make_comm_hints(G, s) ==
    LET name == G.nodes[G.scopes[s].node].name
        hints == IF name \in DOMAIN HintIndex THEN HintIndex[name]
                 ELSE NoHints
    IN [topics |-> CommHints(G, s, hints.advertise, hints.subscribe),
        services |-> CommHints(G, s, hints.service, hints.client)]

\* _group_tag returns when the tree of the group is done
EndGroup ==
    /\ pc = "walk" /\ Top.kind = "group"
    /\ stack' = Pop
    /\ UNCHANGED <<graphVars, cfgParams, errors, pc, exc, launches, steps, last>>

\* _node_tag after its call of _analyse_tree: the links are made, and then
\* `self._make_missing_links(...)` names a method the class does not
\* have: AttributeError, which no except clause catches.  The dicts of
\* make_comm_hints are passed to make_topics and make_services, which hand
\* them to _lookup_resource; that reads them for a name with the wildcard
\* marker only, and no call of Templates has one.
EndNode ==
    /\ pc = "walk" /\ Top.kind = "node"
    /\ SetGraph(make_services(make_topics(Graph, Top.scope), Top.scope))
    /\ pc' = "aborted"
    /\ exc' = "AttributeError"
    /\ stack' = <<>>
    /\ UNCHANGED <<cfgParams, errors, launches, steps, last>>

\* _include_tag returning after the tree of the tag, the tree of the
\* included file left out
EndIncludeTag_SkipsFile ==
    /\ pc = "walk" /\ Top.kind = "include"
    /\ stack' = Pop
    /\ UNCHANGED <<graphVars, cfgParams, errors, pc, exc, launches, steps, last>>

\* _include_tag between its two calls of _analyse_tree: the tree of the
\* included file follows, against the same scope
EndIncludeTag ==
    /\ pc = "walk" /\ Top.kind = "include"
    /\ stack' = Append(Pop, Frame(Top.scope, "file"))
    /\ UNCHANGED <<graphVars, cfgParams, errors, pc, exc, launches, steps, last>>

\* _include_tag returns when the tree of the included file is done
EndFile ==
    /\ pc = "walk" /\ Top.kind = "file"
    /\ stack' = Pop
    /\ UNCHANGED <<graphVars, cfgParams, errors, pc, exc, launches, steps, last>>

\* add_launch after _analyse_tree: the parameters are committed
EndLaunch ==
    /\ pc = "walk" /\ Top.kind = "root"
    /\ cfgParams' = CommitParameters(cfgParams, parameters)
    /\ pc' = "done"
    /\ stack' = <<>>
    /\ UNCHANGED <<graphVars, errors, exc, launches, steps, last>>

Next ==
    \/ AddLaunch
    \/ ErrorTag
    \/ SkippedTag
    \/ UnresolvedTag
    \/ GroupTag
    \/ NodeTag
    \/ IncludeTag
    \/ RemapTag
    \/ ParamTag
    \/ RosparamTag
    \/ ArgTag
    \/ NoEffectTag
    \/ EndGroup
    \/ EndNode
    \/ EndIncludeTag
    \/ EndFile
    \/ EndLaunch

Spec == Init /\ [][Next]_vars

-----------------------------------------------------------------------------
(* The parameter methods of LaunchScope driven directly, among forks and   *)
(* node scopes made as above, with True and symbolic conditions.           *)

\* scope.make_params(name, ptype, value, condition); ValueError is left to
\* the caller
ScopeMakeParams ==
    /\ steps < MaxSteps
    /\ \E name \in ParamNames, v \in ParamValues, c \in NodeConds :
          /\ last' = [tag |-> "make_params", match |-> "",
                      attrs |-> [name |-> name, value |-> v[1],
                                 type |-> v[2], condition |-> c]]
          /\ IF convert_value(v[1], v[2]).type = "ValueError"
             THEN exc' = "ValueError" /\ UNCHANGED graphVars
             ELSE /\ exc' = ""
                  /\ SetGraph(make_params(Graph, Top.scope, name,
                                          convert_value(v[1], v[2]), c))
    /\ UNCHANGED <<cfgParams, errors, pc, stack, launches>>
    /\ steps' = steps + 1

\* scope.make_rosparam(name, ns, value, condition)
ScopeMakeRosparam ==
    /\ steps < MaxSteps
    /\ \E a \in {i \in RosparamInputs : i.resolved /\ i.command = "load"},
          c \in NodeConds :
          LET done == make_rosparam(Graph, Top.scope, a.name, a.ns, a.value, c)
          IN /\ last' = [tag |-> "make_rosparam", match |-> "",
                         attrs |-> [name |-> a.name, value |-> a.value,
                                    condition |-> c]]
             /\ exc' = done.raised
             /\ SetGraph(done.graph)
    /\ UNCHANGED <<cfgParams, errors, pc, stack, launches>>
    /\ steps' = steps + 1

\* the names, types and hints _lookup_resource is called with
LookupNames == {<<"t">>, <<"?">>, <<"g", "?">>}
LookupTypes == {"T1", "T2"}
LookupHints == {EmptyMap, (<<"h">> :> "T1"), (<<"g", "h">> :> "T2")}

\* self._lookup_resource(name, type, configuration.topics, hints) called
\* from a node scope; the collection as name -> type is kept with the call
ScopeLookup ==
    /\ steps < MaxSteps
    /\ Top.kind = "node"
    /\ \E name \in LookupNames, type \in LookupTypes, hints \in LookupHints :
          LET collection == [t \in DOMAIN topics |-> topics[t].type]
              found == lookup(name, type, collection, hints)
          IN /\ last' = [tag |-> "lookup", match |-> "",
                         attrs |-> [name |-> name, type |-> type,
                                    hints |-> hints,
                                    collection |-> collection,
                                    result |-> found.result]]
             /\ exc' = found.raised
    /\ UNCHANGED <<graphVars, cfgParams, errors, pc, stack, launches>>
    /\ steps' = steps + 1

LookupNext ==
    \/ ScopeMakeNode
    \/ ScopeMakeLinks
    \/ ScopeLookup

LookupSpec == ScopeInit /\ [][LookupNext]_vars

ParamNext ==
    \/ ScopeChild
    \/ ScopeMakeNode
    \/ ScopeMakeLinks
    \/ ScopeLeave
    \/ ScopeMakeParams
    \/ ScopeMakeRosparam

ParamSpec == ScopeInit /\ [][ParamNext]_vars

-----------------------------------------------------------------------------
(* add_launch on a launch tree that is given: the trees are sequences of   *)
(* tags, an include tag names a file of the source index, and each frame   *)
(* of the stack holds what is left of the tree its loop goes through.      *)

WalkTag(tag, cond, file) == [tag |-> tag, cond |-> cond, file |-> file]
ParamIf(value) == WalkTag("param", <<TRUE, value>>, "")
IncludeOf(file) == WalkTag("include", <<TRUE, "True">>, file)

\* the trees of the launch files sources.get_file knows: inc includes
\* nothing, loop includes itself
Files ==
    [inc |-> <<ParamIf("True"), WalkTag("error", <<TRUE, "True">>, "")>>,
     loop |-> <<ParamIf("True"), IncludeOf("loop")>>]

WalkTags ==
    {ParamIf("True"), ParamIf("False"), ParamIf("None"),
     WalkTag("error", <<TRUE, "True">>, ""),
     WalkTag("node", <<TRUE, "True">>, ""),
     IncludeOf("inc"), IncludeOf("loop"), IncludeOf("missing")}

WalkTrees ==
    UNION {[1..n -> WalkTags] : n \in 1..MaxTreeLen}

WalkFrame(scope, kind, rest) == [scope |-> scope, kind |-> kind, rest |-> rest]

\* the loop of the innermost _analyse_tree goes on with the next tag
Advance == [stack EXCEPT ![Len(stack)].rest = Tail(@)]

\* add_launch up to its call of _analyse_tree, on a builder just made.
\* last keeps the tree add_launch was given besides the tag handled last.
WalkInit ==
    /\ scopes = <<RootScope("main", 1)>>
    /\ arguments = <<EmptyMap>>
    /\ nodes = <<>>
    /\ links = <<>>
    /\ topics = EmptyMap
    /\ services = EmptyMap
    /\ parameters = <<>>
    /\ cfgParams = EmptyMap
    /\ errors = <<>>
    /\ pc = "walk"
    /\ exc = ""
    /\ launches = 1
    /\ steps = 0
    /\ \E tree \in WalkTrees :
          /\ stack = <<WalkFrame(1, "root", tree)>>
          /\ last = [tag |-> "", match |-> "",
                     attrs |-> [resolved |-> TRUE, tree |-> tree]]

\* what a pass of the loop notes of its tag
Visit(t) ==
    /\ steps' = steps + 1
    /\ last' = [last EXCEPT !.tag = t.tag, !.match = Match(t.cond)]

Next1 == stack # <<>> /\ Top.rest # <<>>

\* the pass of the loop for a tag whose condition is False: `continue`
WalkSkip ==
    /\ pc = "walk" /\ Next1
    /\ Head(Top.rest).tag # "error"
    /\ condition_of(Head(Top.rest).cond[1], Head(Top.rest).cond[2]) = Never
    /\ stack' = Advance
    /\ last' = [last EXCEPT !.tag = "", !.match = "exclude"]
    /\ UNCHANGED <<graphVars, cfgParams, errors, pc, exc, launches, steps>>

\* the pass of the loop for an error node
WalkError ==
    /\ pc = "walk" /\ Next1
    /\ Head(Top.rest).tag = "error"
    /\ Visit(Head(Top.rest))
    /\ errors' = Append(errors, "parse error")
    /\ stack' = Advance
    /\ UNCHANGED <<graphVars, cfgParams, pc, exc, launches>>

\* the pass of the loop for a tag for which _condition raises
WalkUnresolved ==
    /\ pc = "walk" /\ Next1
    /\ Head(Top.rest).tag # "error"
    /\ condition_of(Head(Top.rest).cond[1], Head(Top.rest).cond[2]).kind
          = "raise"
    /\ Visit(Head(Top.rest))
    /\ Abort("NameError")

\* the tag is no error node and its condition is True
Dispatched(tag) ==
    /\ pc = "walk" /\ Next1
    /\ Head(Top.rest).tag = tag
    /\ condition_of(Head(Top.rest).cond[1], Head(Top.rest).cond[2]) = Always
    /\ Visit(Head(Top.rest))

\* _param_tag of <param name="x" value="1"/>
WalkParam ==
    /\ Dispatched("param")
    /\ SetGraph(make_params(Graph, Top.scope, Rel(<<"x">>),
                            convert_value("1", "None"), Always))
    /\ stack' = Advance
    /\ UNCHANGED <<cfgParams, errors, pc, exc, launches>>

\* _node_tag of <node name="n" pkg="a" type="talker"/>, which has no
\* children: the instance and its links are made, and then
\* self._make_missing_links raises AttributeError
WalkNode ==
    /\ Dispatched("node")
    /\ LET G == make_node(Graph, Top.scope, get_node("a", "talker"),
                          Rel(<<"n">>), NoName, Always)
           s == Len(G.scopes)
       IN SetGraph(make_services(make_topics(G, s), s))
    /\ pc' = "aborted"
    /\ exc' = "AttributeError"
    /\ stack' = <<>>
    /\ UNCHANGED <<cfgParams, errors, launches>>

\* _include_tag of <include file="..."/>, which has no children: the tree
\* of the file is analysed against the forked scope.  Nothing tells a file
\* that is being analysed from another; the interpreter ends a recursion
\* that is too deep by RuntimeError, which no except clause catches.
WalkInclude ==
    /\ Dispatched("include")
    /\ LET file == Head(Top.rest).file
       IN IF file \notin DOMAIN Files
          THEN /\ errors' = Append(errors, "cannot find launch file")
               /\ stack' = Advance
               /\ UNCHANGED <<graphVars, cfgParams, pc, exc, launches>>
          ELSE IF Len(stack) >= RecursionLimit
          THEN Abort("RuntimeError")
          ELSE /\ SetGraph(child([Graph EXCEPT
                                     !.arguments = Append(@, EmptyMap)],
                                 Top.scope, NoName, Always, file,
                                 Len(arguments) + 1))
               /\ stack' = Append(Advance,
                                  WalkFrame(Len(scopes) + 1, "file",
                                            Files[file]))
               /\ UNCHANGED <<cfgParams, errors, pc, exc, launches>>

\* the loop of the innermost _analyse_tree is done: the handler that
\* called it returns, or add_launch commits the parameters
WalkEnd ==
    /\ pc = "walk" /\ stack # <<>> /\ Top.rest = <<>>
    /\ IF Top.kind = "root"
       THEN /\ cfgParams' = CommitParameters(cfgParams, parameters)
            /\ pc' = "done"
            /\ stack' = <<>>
       ELSE /\ stack' = Pop
            /\ UNCHANGED <<cfgParams, pc>>
    /\ UNCHANGED <<graphVars, errors, exc, launches, steps, last>>

WalkNext ==
    \/ WalkSkip
    \/ WalkError
    \/ WalkUnresolved
    \/ WalkParam
    \/ WalkNode
    \/ WalkInclude
    \/ WalkEnd

WalkSpec == WalkInit /\ [][WalkNext]_vars

-----------------------------------------------------------------------------
(* Properties of the dispatch loop *)

\* C1: a tag whose condition cannot be resolved does not end the build by
\* an exception (its handler runs with a symbolic condition instead).
C1_UnresolvedIsHandled ==
    last.match = "unresolved" => exc # "NameError"

\* C2: add_launch runs to completion whatever the tags are: no tag whose
\* condition resolves makes it end by an exception.
C2_BuildCompletes ==
    pc = "aborted" => last.match = "unresolved"

\* C4: the pass of the loop for a tag whose condition resolves to the
\* opposite of its polarity changes nothing: no scope, entity, remap,
\* staged or committed parameter, no entry of the error log, and no tree
\* is entered.
C4_NeverIsSkipped ==
    [][(steps' = steps + 1 /\ last'.match = "exclude")
        => UNCHANGED <<graphVars, cfgParams, errors, stack, pc, exc>>]_vars

\* a tag has been skipped in a group of a build that goes on
C4_Witness ==
    /\ last.match = "exclude"
    /\ pc = "walk"
    /\ Len(stack) = 2

\* C12: the pass of the loop for a remap tag whose condition cannot be
\* resolved appends one error to the log, leaves every remap table as it
\* is, and the walk goes on with the next sibling.
C12_ConditionalRemapRejected ==
    [][(steps' = steps + 1 /\ last'.tag = "remap"
            /\ last'.match = "unresolved")
        => /\ Len(errors') = Len(errors) + 1
           /\ scopes' = scopes
           /\ pc' = "walk" /\ stack' = stack]_vars

\* C13: once add_launch is over after a param tag with a private name and
\* a literal value inside an unconditional node tag, the configuration
\* holds the instance and, under the instance's name joined with the
\* parameter's, a node-scoped unconditional Parameter with the coerced value.
C13_NodeParamCommitted ==
    (/\ pc \in {"done", "aborted"}
     /\ last.tag = "param" /\ last.match = "include"
     /\ parameters # <<>>)
    => LET param == parameters[Len(parameters)]
       IN (param.node_scope /\ param.given.k = "priv")
          => /\ \E n \in 1..Len(nodes) :
                   param.name = nodes[n].name \o param.given.p
             /\ param.conditions = <<>>
             /\ param.name \in DOMAIN cfgParams
             /\ cfgParams[param.name] = param

\* C17: the pass of the loop for an unconditional arg tag whose attributes
\* resolve: with a value, the name is bound to the value whatever was
\* bound; with a default only, a binding that exists is left as it is and
\* an unbound name is bound to the default.  No other table changes.
C17_ArgBinding ==
    [][(/\ steps' = steps + 1
        /\ last'.tag = "arg" /\ last'.match = "include"
        /\ last'.attrs.resolved)
        => LET a == last'.attrs
               tab == scopes[Top.scope].args
               bound == Get(arguments[tab], a.name)
           IN /\ \A i \in 1..Len(arguments) :
                    i # tab => arguments'[i] = arguments[i]
              /\ Len(arguments') = Len(arguments)
              /\ \A k \in DOMAIN arguments[tab] :
                    k # a.name => /\ k \in DOMAIN arguments'[tab]
                                  /\ arguments'[tab][k] = arguments[tab][k]
              /\ a.value # "None" => Get(arguments'[tab], a.name) = a.value
              /\ (a.value = "None" /\ bound # "None")
                    => arguments'[tab] = arguments[tab]
              /\ (a.value = "None" /\ bound = "None")
                    => Get(arguments'[tab], a.name) = a.default]_vars

\* under an include, an arg tag with a default has left the binding that
\* an arg tag with a value made in the table of the include
C17_Witness ==
    /\ pc = "walk"
    /\ Top.kind = "file"
    /\ last.tag = "arg" /\ last.match = "include"
    /\ last.attrs.resolved
    /\ last.attrs.value = "None" /\ last.attrs.default = "d"
    /\ Get(arguments[scopes[Top.scope].args], "a") \in {"v1", "v2"}

\* C18: the pass of the loop for an arg tag whose condition cannot be
\* resolved appends one error to the log, changes no argument table, and
\* the walk goes on.
C18_ConditionalArgRejected ==
    [][(steps' = steps + 1 /\ last'.tag = "arg"
            /\ last'.match = "unresolved")
        => /\ Len(errors') = Len(errors) + 1
           /\ arguments' = arguments
           /\ pc' = "walk"]_vars

\* C14: no step of the walk changes the configuration's parameter
\* collection; the step that ends the walk puts every parameter of the
\* committed list in it, the last one of a name in the list being the one
\* the collection holds.
C14_DeferredCommit ==
    [][/\ (pc = "walk" /\ pc' # "done") => cfgParams' = cfgParams
       /\ (pc = "walk" /\ pc' = "done")
            => LET names == {parameters[i].name : i \in 1..Len(parameters)}
                   Latest(n) ==
                       CHOOSE i \in 1..Len(parameters) :
                           /\ parameters[i].name = n
                           /\ \A j \in (i + 1)..Len(parameters) :
                                 parameters[j].name # n
               IN /\ DOMAIN cfgParams' = DOMAIN cfgParams \cup names
                  /\ \A n \in names : cfgParams'[n] = parameters[Latest(n)]
                  /\ \A n \in DOMAIN cfgParams \ names :
                        cfgParams'[n] = cfgParams[n]]_vars

\* a walk is over in which two declarations gave one name two values, and
\* the collection holds the later one
C14_Witness ==
    /\ pc = "done"
    /\ \E i, j \in 1..Len(parameters) :
          /\ i < j
          /\ parameters[i].name = parameters[j].name
          /\ parameters[i].value # parameters[j].value
          /\ cfgParams[parameters[j].name].value = parameters[j].value

\* C15: the pass of the loop for an unconditional rosparam delete of a
\* name that an earlier tag of the launch declared logs no error, the walk
\* goes on, and no parameter of that name is left to be committed.
C15_DeleteRemoves ==
    [][(/\ steps' = steps + 1
        /\ last'.tag = "rosparam" /\ last'.match = "include"
        /\ last'.attrs.resolved /\ last'.attrs.command = "delete"
        /\ scopes[Top.scope].conditions = <<>>
        /\ \E i \in 1..Len(parameters) :
              parameters[i].name =
                  Resolve(last'.attrs.name, private_ns(Graph, Top.scope),
                          <<"rosparam">>))
        => /\ errors' = errors
           /\ pc' = "walk"
           /\ \A i \in 1..Len(parameters') :
                 parameters'[i].name #
                     Resolve(last'.attrs.name, private_ns(Graph, Top.scope),
                             <<"rosparam">>)]_vars

\* C16: when add_launch is over after a rosparam delete whose condition
\* could not be resolved, the walk has been completed and every parameter
\* declared before the delete is in the configuration's collection.
C16_ConditionalDeleteKeeps ==
    (/\ pc # "walk"
     /\ parameters # <<>>
     /\ last.tag = "rosparam" /\ last.match = "unresolved")
    => /\ pc = "done"
       /\ \A i \in 1..Len(parameters) :
             parameters[i].name \in DOMAIN cfgParams

-----------------------------------------------------------------------------
(* Properties of LaunchScope *)

Range(f) == {f[i] : i \in DOMAIN f}

IsPrefix(a, b) == Len(a) <= Len(b) /\ SubSeq(b, 1, Len(a)) = a

\* the conditions the enclosing scopes of s were created with, outermost
\* first, the True ones left out
RECURSIVE EnclosingConditions(_)
EnclosingConditions(s) ==
    IF s = 0 THEN <<>>
    ELSE EnclosingConditions(scopes[s].parent)
            \o (IF scopes[s].cond = Always THEN <<>> ELSE <<scopes[s].cond>>)

\* C3: the condition list of every node instance is the sequence of the
\* non-Always conditions of its enclosing group/include scopes, outermost
\* first, followed by the node's own condition if that is not Always.
C3_ConditionList ==
    \A n \in 1..Len(nodes) :
        NodeConditions(Graph, n) = EnclosingConditions(nodes[n].scope)

\* a node under one group with a symbolic condition, itself unconditional,
\* carries exactly that one symbolic condition
C3_Witness ==
    \E n \in 1..Len(nodes) :
        LET s == scopes[nodes[n].scope]
        IN /\ s.cond = Always
           /\ s.parent # 0
           /\ scopes[s.parent].cond = Symbolic("e1")
           /\ scopes[s.parent].parent # 0
           /\ scopes[scopes[s.parent].parent].conditions = <<>>
           /\ NodeConditions(Graph, n) = <<Symbolic("e1")>>

\* the links attached to a topic / a service, in attachment order
TopicLinks(t) == topics[t].publishers \o topics[t].subscribers
ServiceLinks(v) ==
    (IF services[v].server = 0 THEN <<>> ELSE <<services[v].server>>)
        \o services[v].clients

Unconditional(l) == NodeConditions(Graph, links[l].node) = <<>>

\* C5: a topic or service with an attached link that was declared without
\* conditions and whose process has no conditions has an empty condition
\* list, whatever links of conditional processes are attached besides it.
C5_UnconditionalPropagates ==
    /\ \A t \in DOMAIN topics : \A l \in Range(TopicLinks(t)) :
          (/\ Unconditional(l)
           /\ links[l].declared = <<>>
           /\ \A o \in Range(TopicLinks(t)) \ {l} : ~Unconditional(o))
          => EntityConditions(Graph, topics[t]) = <<>>
    /\ \A v \in DOMAIN services : \A l \in Range(ServiceLinks(v)) :
          (/\ Unconditional(l)
           /\ links[l].declared = <<>>
           /\ \A o \in Range(ServiceLinks(v)) \ {l} : ~Unconditional(o))
          => EntityConditions(Graph, services[v]) = <<>>

\* the recomputation rule as stated: the first attachment whose process is
\* unconditional gives the result, else all attachments are concatenated
RECURSIVE StatedRule(_)
StatedRule(ls) ==
    IF ls = <<>> THEN <<>>
    ELSE IF \E i \in 1..Len(ls) : Unconditional(ls[i])
    THEN links[ls[CHOOSE i \in 1..Len(ls) :
                    /\ Unconditional(ls[i])
                    /\ \A j \in 1..(i - 1) : ~Unconditional(ls[j])]].declared
    ELSE NodeConditions(Graph, links[Head(ls)].node)
            \o links[Head(ls)].declared \o StatedRule(Tail(ls))

\* C6: a topic's condition list is the stated rule applied to its
\* publishers followed by its subscribers.
C6_TopicRule ==
    \A t \in DOMAIN topics :
        EntityConditions(Graph, topics[t]) = StatedRule(TopicLinks(t))

\* C7: a service's condition list is the stated rule applied to its server
\* link, if any, followed by its client links.
C7_ServiceRule ==
    \A v \in DOMAIN services :
        EntityConditions(Graph, services[v]) = StatedRule(ServiceLinks(v))

\* C8: the second reference to a resolved name reuses the entity made by
\* the first: every topic link is attached to the one Topic the collection
\* holds under its target name, and every client link of an instance to the
\* one Service under its target name.
C8_OneEntityPerName ==
    \A l \in 1..Len(links) :
        IF links[l].kind = "topic"
        THEN /\ links[l].target \in DOMAIN topics
             /\ l \in Range(TopicLinks(links[l].target))
        ELSE /\ links[l].target \in DOMAIN services
             /\ l \in Range(nodes[links[l].node].clients)
                   => l \in Range(services[links[l].target].clients)

\* two different instances have a link to the same topic, which holds both
C8_Witness ==
    \E t \in DOMAIN topics :
        /\ Len(TopicLinks(t)) = 2
        /\ links[TopicLinks(t)[1]].node # links[TopicLinks(t)[2]].node

\* C9: the links of an instance and the back-references of the entities
\* agree, role by role, in both directions.
C9_BackReferences ==
    /\ \A n \in 1..Len(nodes) :
          /\ \A l \in Range(nodes[n].publishers) :
                l \in Range(topics[links[l].target].publishers)
          /\ \A l \in Range(nodes[n].subscribers) :
                l \in Range(topics[links[l].target].subscribers)
          /\ \A l \in Range(nodes[n].servers) :
                services[links[l].target].server = l
          /\ \A l \in Range(nodes[n].clients) :
                l \in Range(services[links[l].target].clients)
    /\ \A t \in DOMAIN topics :
          /\ \A l \in Range(topics[t].publishers) :
                links[l].target = t /\ l \in Range(nodes[links[l].node].publishers)
          /\ \A l \in Range(topics[t].subscribers) :
                links[l].target = t /\ l \in Range(nodes[links[l].node].subscribers)
    /\ \A v \in DOMAIN services :
          /\ services[v].server # 0 =>
                /\ links[services[v].server].target = v
                /\ services[v].server
                      \in Range(nodes[links[services[v].server].node].servers)
          /\ \A l \in Range(services[v].clients) :
                links[l].target = v /\ l \in Range(nodes[links[l].node].clients)

\* C10: a step changes the remap table of no scope but the innermost one,
\* and a scope made by a step starts with a copy of its parent's table.
C10_RemapIsLocal ==
    [][/\ \A s \in 1..Len(scopes) :
             scopes'[s].remaps # scopes[s].remaps => s = Top.scope
       /\ \A s \in (Len(scopes) + 1)..Len(scopes') :
             scopes'[s].remaps = scopes[scopes'[s].parent].remaps]_vars

\* a fork holds a remap that neither its parent nor a sibling fork made
\* after it holds
C10_Witness ==
    \E a, b \in 1..Len(scopes) :
        /\ a < b
        /\ scopes[a].parent = scopes[b].parent
        /\ scopes[a].parent # 0
        /\ scopes[a].node = 0
        /\ scopes[a].remaps # EmptyMap
        /\ scopes[b].remaps = EmptyMap
        /\ scopes[scopes[a].parent].remaps = EmptyMap

\* C11: the links of a process are made only when its node scope is left,
\* each targets its name under the instance's remap table, and a step made
\* while the node scope is not the innermost one (a later sibling) changes
\* neither that table nor the target of any link.
C11_RemapsNotRetroactive ==
    [][/\ \A n \in 1..Len(nodes) :
             /\ Top.scope # nodes[n].scope
                   => NodeRemaps(Graph, n)' = NodeRemaps(Graph, n)
             /\ Top.scope = nodes[n].scope
                   => nodes[n].publishers \o nodes[n].subscribers
                        \o nodes[n].servers \o nodes[n].clients = <<>>
       /\ \A l \in 1..Len(links) :
             /\ links'[l].target = links[l].target
             /\ links'[l].node = links[l].node
       /\ \A l \in 1..Len(links') :
             LET remaps == scopes'[nodes'[links'[l].node].scope].remaps
                 given == links'[l].given
             IN links'[l].target =
                   IF given \in DOMAIN remaps THEN remaps[given] ELSE given
      ]_vars

\* a remap declared after a node tag, in the scope the node was made from,
\* renames a name that a link of the process keeps
C11_Witness ==
    \E l \in 1..Len(links) :
        LET n == links[l].node
            p == scopes[nodes[n].scope].parent
        IN /\ links[l].given \in DOMAIN scopes[p].remaps
           /\ scopes[p].remaps[links[l].given] # links[l].given
           /\ links[l].given \notin DOMAIN NodeRemaps(Graph, n)
           /\ links[l].target = links[l].given

\* C29: a step that makes a scope (child, make_node) makes it a child of
\* the innermost scope and leaves the namespace, the remap table and the
\* condition list of every scope there was as they were; the new scope's
\* condition list is its parent's, followed by the condition it was made
\* with iff that is not Always.  No step changes the namespace or the
\* condition list of a scope.
C29_ForkKeepsParent ==
    [][/\ \A s \in (Len(scopes) + 1)..Len(scopes') :
             LET p == scopes'[s].parent
             IN /\ p = Top.scope
                /\ \A o \in 1..Len(scopes) :
                      scopes'[o].remaps = scopes[o].remaps
                /\ scopes'[s].conditions =
                      scopes[p].conditions
                         \o (IF scopes'[s].cond = Always THEN <<>>
                             ELSE <<scopes'[s].cond>>)
                /\ IsPrefix(scopes'[p].conditions, scopes'[s].conditions)
       /\ \A o \in 1..Len(scopes) :
             /\ scopes'[o].namespace = scopes[o].namespace
             /\ scopes'[o].conditions = scopes[o].conditions]_vars

\* a fork made with a symbolic condition from a fork that has one: two
\* conditions in the child, one in the parent, none in the root
C29_Witness ==
    \E s \in 1..Len(scopes) :
        LET p == scopes[s].parent
        IN /\ p # 0
           /\ scopes[s].node = 0 /\ scopes[p].node = 0
           /\ scopes[p].parent # 0
           /\ scopes[s].namespace # scopes[p].namespace
           /\ Len(scopes[s].conditions) = 2
           /\ Len(scopes[p].conditions) = 1
           /\ scopes[scopes[p].parent].conditions = <<>>

\* C30: whatever links have been attached and however often the lists of
\* the topics and services have been recomputed, every link holds the
\* condition list it was made with (that of its call site), and no step
\* changes the condition list of an instance.
C30_RecomputeKeepsLinks ==
    [][/\ \A l \in 1..Len(links') : links'[l].conditions = links'[l].declared
       /\ \A n \in 1..Len(nodes) :
             NodeConditions(Graph, n)' = NodeConditions(Graph, n)]_vars

-----------------------------------------------------------------------------
(* Properties of the parameter methods *)

\* the leaves of a value, each with the path of keys that leads to it
RECURSIVE LeafPaths(_, _)
LeafPaths(value, path) ==
    IF value.type # "dict" THEN {<<path, value.value>>}
    ELSE UNION {LeafPaths(value.items[i][2], Append(path, value.items[i][1])) :
                   i \in 1..Len(value.items)}

\* what a step appended to the committed list and to the pending list of
\* the innermost scope
NewCommitted == SubSeq(parameters', Len(parameters) + 1, Len(parameters'))
NewPending ==
    SubSeq(scopes'[Top.scope].pparams, Len(scopes[Top.scope].pparams) + 1,
           Len(scopes'[Top.scope].pparams))

C20_PendingPrivate ==
    [][/\ (/\ steps' = steps + 1 /\ stack' = stack
           /\ last'.tag = "make_params" /\ exc' = ""
           /\ last'.attrs.name.k = "priv"
           /\ convert_value(last'.attrs.value, last'.attrs.type).type
                 # "dict"
           /\ scopes[Top.scope].node = 0)
          => /\ parameters' = parameters
             /\ cfgParams' = cfgParams
             /\ Len(NewPending) = 1
             /\ NewPending[1].given = last'.attrs.name
       /\ Len(nodes') = Len(nodes) + 1
          => LET pending == scopes[Top.scope].pparams
                 inst == nodes'[Len(nodes')]
             IN /\ Len(NewCommitted) = Len(pending)
                /\ \A i \in 1..Len(pending) :
                      NewCommitted[i] =
                         [pending[i] EXCEPT
                            !.name = inst.name \o pending[i].given.p,
                            !.conditions =
                               @ \o scopes'[inst.scope].conditions]
      ]_vars

\* a conditional private parameter declared outside any node scope has
\* been committed under a conditional instance made later
C20_Witness ==
    \E i \in 1..Len(parameters), n \in 1..Len(nodes) :
        /\ parameters[i].given.k = "priv"
        /\ ~parameters[i].node_scope
        /\ parameters[i].name = nodes[n].name \o parameters[i].given.p
        /\ Len(parameters[i].conditions) = 2
        /\ Len(NodeConditions(Graph, n)) = 1

-----------------------------------------------------------------------------
(* Properties of the tag handlers *)

C22_IncludeOrder ==
    [][(pc = "walk" /\ pc' = "walk")
        => /\ (Top.kind = "include" /\ stack' # stack)
                 => \/ stack' = Append(Pop, Frame(Top.scope, "file"))
                    \/ /\ Len(stack') = Len(stack) + 1
                       /\ IsPrefix(stack, stack')
                       /\ scopes'[Top'.scope].parent = Top.scope
           /\ \A i \in 1..Len(stack') :
                 (stack'[i].kind = "file"
                    /\ (i > Len(stack) \/ stack[i] # stack'[i]))
                 => /\ i = Len(stack) /\ Len(stack') = Len(stack)
                    /\ stack[i] = Frame(stack'[i].scope, "include")
                    /\ UNCHANGED <<graphVars, errors>>
           /\ (Len(stack') < Len(stack) /\ scopes[Top.scope].launch # "main"
                 /\ scopes[Top'.scope].launch = "main")
                 => Top.kind = "file"
           /\ IsPrefix(nodes, nodes')
           /\ IsPrefix(parameters, parameters')
           /\ IsPrefix(errors, errors')]_vars

\* the tree that holds an include tag is resumed: a parameter staged
\* against the forked scope follows the one declared before the include tag
C22_Witness ==
    /\ pc = "walk"
    /\ Len(stack) = 1
    /\ Len(parameters) = 2
    /\ parameters[1].name = <<"x">>
    /\ parameters[2].name = <<"g", "x">>
    /\ \E s \in 1..Len(scopes) : scopes[s].launch = "inc"

\* C23: the pass of the loop for an include tag whose file the source
\* index lacks, or has without a parse tree, appends one error to the log;
\* no scope is made, no tree is entered, and the graph and the argument
\* tables are left as they are.
C23_IncludeFileErrors ==
    [][(/\ steps' = steps + 1
        /\ last'.tag = "include" /\ last'.match = "include"
        /\ last'.attrs.resolved
        /\ last'.attrs.file \in {"missing", "notree"})
        => /\ Len(errors') = Len(errors) + 1
           /\ IsPrefix(errors, errors')
           /\ UNCHANGED <<graphVars, cfgParams, stack, pc, exc>>]_vars

\* an include tag of a file without a parse tree was rejected in a group,
\* and the walk goes on in the group
C23_Witness ==
    /\ last.tag = "include" /\ last.match = "include"
    /\ last.attrs.file = "notree"
    /\ errors = <<"missing parse tree">>
    /\ pc = "walk"
    /\ Len(stack) = 2 /\ Len(scopes) = 2

\* C24: the pass of the loop for an include tag makes one new argument
\* table, held by the forked scope alone: a copy of the including scope's
\* table with pass_all_args, an empty one without; and a pass of the loop
\* changes no table but the one the innermost scope holds.
C24_IncludeArguments ==
    [][(pc = "walk" /\ steps' = steps + 1)
        => /\ (/\ last'.tag = "include" /\ last'.match = "include"
                /\ Len(scopes') = Len(scopes) + 1)
                 => LET new == scopes'[Len(scopes')].args
                    IN /\ Len(arguments') = Len(arguments) + 1
                       /\ new = Len(arguments')
                       /\ arguments'[new] =
                             IF last'.attrs.pass_all_args
                             THEN arguments[scopes[Top.scope].args]
                             ELSE EmptyMap
           /\ \A i \in 1..Len(arguments) :
                 i # scopes[Top.scope].args => arguments'[i] = arguments[i]
           /\ Top.kind \in {"include", "file"}
                 => arguments'[scopes[scopes[Top.scope].parent].args]
                       = arguments[scopes[scopes[Top.scope].parent].args]
       ]_vars

\* a binding copied by an include tag with pass_all_args was bound anew
\* under the include tag, and the including scope keeps its own
C24_Witness ==
    \E s \in 1..Len(scopes) :
        /\ scopes[s].parent # 0
        /\ scopes[s].launch = "inc"
        /\ Get(arguments[scopes[scopes[s].parent].args], "a") = "v1"
        /\ Get(arguments[scopes[s].args], "a") = "v2"

\* C27: the pass of the loop for an error node appends the text of the
\* node to the error log and nothing else: no exception, no change of a
\* scope or of the graph, and the walk goes on in the same tree; and every
\* pass of the loop leaves the log as it is or appends one entry to it.
C27_ErrorNode ==
    [][/\ (steps' = steps + 1 /\ last'.tag = "error")
             => /\ errors' = Append(errors, "parse error")
                /\ UNCHANGED <<graphVars, cfgParams, stack, pc, exc>>
       /\ pc = "walk"
             => \/ errors' = errors
                \/ /\ Len(errors') = Len(errors) + 1
                   /\ IsPrefix(errors, errors')]_vars

\* the text of an error node follows, in the log, the error of a tag that
\* was rejected before it, and the walk goes on
C27_Witness ==
    /\ last.tag = "error"
    /\ errors = <<"cannot find package", "parse error">>
    /\ pc = "walk"

\* C28: the pass of the loop for an env, machine or test tag whose
\* condition holds changes nothing: not the graph, not a scope (namespace,
\* remaps, conditions, pending parameters), not an argument table, not the
\* staged or committed parameters, not the error log, and the walk goes on.
C28_NoEffectTags ==
    [][(steps' = steps + 1 /\ last'.tag \in NoEffectTags
            /\ last'.match = "include")
        => UNCHANGED <<graphVars, cfgParams, errors, stack, pc, exc>>]_vars

\* a test tag was passed in a group after a binding and a scope were made
C28_Witness ==
    /\ last.tag = "test" /\ last.match = "include"
    /\ pc = "walk"
    /\ Len(scopes) = 2 /\ Len(stack) = 2
    /\ arguments[1] # EmptyMap

\* a parameter that make_node made from a pending one
Rehomed(param, pending) ==
    /\ param.given = pending.given
    /\ param.value = pending.value
    /\ param.type = pending.type

\* C31: a pass of the loop changes the pending list of no scope but the
\* innermost one, and a scope starts with a copy of the list its parent
\* has then; the instance a node tag makes is given the parameters
\* pending in the scope of the tag and no other; and the configuration's
\* collection receives only parameters of the committed list, so that no
\* parameter is in it under a private name it was given outside of a node
\* unless an instance of that name took it.
C31_PendingIsScoped ==
    [][/\ pc = "walk"
          => /\ \A s \in 1..Len(scopes) :
                   s # Top.scope => scopes'[s].pparams = scopes[s].pparams
             /\ \A s \in (Len(scopes) + 1)..Len(scopes') :
                   /\ scopes'[s].parent = Top.scope
                   /\ scopes'[s].pparams = scopes[Top.scope].pparams
             /\ Len(nodes') = Len(nodes) + 1
                   => /\ Len(parameters') =
                            Len(parameters) + Len(scopes[Top.scope].pparams)
                      /\ \A i \in 1..Len(scopes[Top.scope].pparams) :
                            Rehomed(parameters'[Len(parameters) + i],
                                    scopes[Top.scope].pparams[i])
       /\ \A k \in DOMAIN cfgParams' :
             \/ k \in DOMAIN cfgParams /\ cfgParams'[k] = cfgParams[k]
             \/ /\ cfgParams'[k] \in Range(parameters)
                /\ (cfgParams'[k].given.k = "priv"
                      /\ ~cfgParams'[k].node_scope)
                      => \/ cfgParams'[k].name[1] = "roslaunch"
                         \/ \E n \in 1..Len(nodes) :
                               k = nodes[n].name \o cfgParams'[k].given.p
      ]_vars

\* a node tag that follows a group in which a private parameter is pending
\* has made an instance, and no parameter was committed for it
C31_Witness ==
    /\ Len(scopes) = 3
    /\ scopes[2].node = 0 /\ scopes[2].pparams # <<>>
    /\ scopes[1].pparams = <<>>
    /\ Len(nodes) = 1
    /\ scopes[nodes[1].scope].parent = 1
    /\ scopes[3].pparams = <<>>
    /\ parameters = <<>>

\* the type the stated inference gives a value with no declared type:
\* numeric first, then a boolean for true/false in any case, else string
StatedInference(value) ==
    IF value \in IntLiterals THEN "int"
    ELSE IF value \in FloatLiterals THEN "double"
    ELSE IF value \in {"true", "True", "false", "False"} THEN "bool"
    ELSE "string"

\* C32: the pass of the loop for a param tag whose value the conversion to
\* the declared type rejects, or whose declared type is none the
\* conversion knows, appends one error to the log, stages nothing
\* (committed and pending lists as they were) and the walk goes on; with no
\* declared type the conversion raises nothing and gives the value the
\* type of the stated inference.
C32_ParamCoercion ==
    [][(/\ steps' = steps + 1
        /\ last'.tag = "param" /\ last'.match = "include"
        /\ last'.attrs.resolved)
        => LET a == last'.attrs
               v == convert_value(a.value, a.type)
           IN /\ v.type \in {"ValueError", "ParserError", "ScannerError"}
                    => /\ Len(errors') = Len(errors) + 1
                       /\ UNCHANGED <<graphVars, cfgParams, stack, pc, exc>>
              /\ a.type = "None"
                    => /\ v.type = StatedInference(a.value)
                       /\ errors' = errors
                       /\ pc' = "walk"]_vars

-----------------------------------------------------------------------------
(* Properties of the entity lookup *)

\* whether a name matches a pattern, the wildcard standing for one or more
\* segments and the whole name being matched
RECURSIVE Matches(_, _)
Matches(pattern, name) ==
    IF pattern = <<>> THEN name = <<>>
    ELSE IF name = <<>> THEN FALSE
    ELSE IF Head(pattern) = "?"
    THEN \E k \in 1..Len(name) :
            Matches(Tail(pattern), SubSeq(name, k + 1, Len(name)))
    ELSE Head(pattern) = Head(name) /\ Matches(Tail(pattern), Tail(name))

\* the results the stated scan allows: a type-matched match of the hints,
\* else one of the collection, else a mismatched match, else None
StatedLookup(name, type, collection, hints) ==
    LET Typed(m) == {n \in DOMAIN m : Matches(name, n) /\ m[n] = type}
        Untyped(m) == {n \in DOMAIN m : Matches(name, n)}
    IN IF Typed(hints) # {} THEN Typed(hints)
       ELSE IF Typed(collection) # {} THEN Typed(collection)
       ELSE IF Untyped(hints) \cup Untyped(collection) # {}
       THEN Untyped(hints) \cup Untyped(collection)
       ELSE {<<"None">>}

\* C25: a lookup of a name with the wildcard marker raises nothing and
\* returns an entity the stated scan of the hints and of the collection
\* allows: a type-matched match if there is one, else a mismatched match,
\* else None.
C25_WildcardLookup ==
    (last.tag = "lookup" /\ HasWildcard(last.attrs.name))
    => /\ exc = ""
       /\ last.attrs.result
             \in StatedLookup(last.attrs.name, last.attrs.type,
                              last.attrs.collection, last.attrs.hints)

-----------------------------------------------------------------------------
(* Properties of the hints *)

\* C26: when the node tag of an instance that has hints has been resolved,
\* every topic and every service named in the hints is in the
\* configuration's collection, and it is the hinted entity (of the hinted
\* type) that the collection holds under that name.
C26_HintsHonoured ==
    (/\ last.tag = "node" /\ last.match = "include"
     /\ nodes # <<>>
     /\ nodes[Len(nodes)].publishers \o nodes[Len(nodes)].servers # <<>>)
    => LET hints == make_comm_hints(Graph, nodes[Len(nodes)].scope)
       IN /\ \A name \in DOMAIN hints.topics :
                /\ name \in DOMAIN topics
                /\ topics[name].type = hints.topics[name]
          /\ \A name \in DOMAIN hints.services :
                /\ name \in DOMAIN services
                /\ services[name].type = hints.services[name]

-----------------------------------------------------------------------------
(* Properties of the walk of a given tree *)

\* whether the walk of a tree comes to an include tag, not under a False
\* condition, of the file that includes itself
IncludesLoop(tree) ==
    \E i \in 1..Len(tree) : tree[i] = IncludeOf("loop")

\* the passes of the loop the stated walk makes for a tree that includes
\* no file that includes itself: one for each tag that is not under a
\* False condition, and for an include tag those of the file's tree too
RECURSIVE Visits(_)
Visits(tree) ==
    IF tree = <<>> THEN 0
    ELSE LET t == Head(tree)
             own == IF t.tag # "error" /\ Match(t.cond) = "exclude" THEN 0
                    ELSE IF t.tag = "include" /\ t.file = "inc"
                    THEN 1 + Visits(Files.inc)
                    ELSE 1
         IN own + Visits(Tail(tree))

\* C33: add_launch on a tree that includes no file that includes itself
\* ends having made one pass of the loop for each tag that is not under a
\* False condition, once for each way it is included; add_launch on a tree
\* that includes a file that includes itself does not end.
C33_WalkTerminates ==
    pc # "walk"
    => /\ ~IncludesLoop(last.attrs.tree)
       /\ pc = "done"
       /\ steps = Visits(last.attrs.tree)

====
